---- MODULE Spec2Model ----
(***************************************************************************)
(* A model of the flashcard viewer: the deck catalog (src/src/utils.rs),   *)
(* the CSV line parser, the card loader, the session state machine and    *)
(* the event loop of main (src/src/main.rs).                               *)
(*                                                                         *)
(* Text is a sequence of one-character strings.  The file system is the   *)
(* environment: a folder snapshot chosen in Init and left alone after.     *)
(***************************************************************************)
EXTENDS Integers, Sequences, FiniteSets, TLC

VARIABLES
    fs,          \* the folder "./flashcard_decks" as the program finds it
    decks,       \* the DeckManager
    game,        \* the FlashcardGame
    pc,          \* "start", "running", "closed" or "panicked"
    panic_msg,   \* the message of the panic that ended the process
    stderr,      \* the kind of the last diagnostic try_load_cards printed
    load_result, \* what the last load_flashcards call returned
    last_key,    \* the key handled last
    run_len,     \* how many times in a row it was handled (a window of MaxRun)
    run_start,   \* the session and the deck index when that run began
    screen,      \* what the last frame drew
    call,        \* a function called on its own: its name and arguments
    ret          \* what that call has computed so far

vars == <<fs, decks, game, pc, panic_msg, stderr, load_result,
          last_key, run_len, run_start, screen, call, ret>>

\* ------------------------------------------------------------------ bounds

\* The most .csv files a folder snapshot holds.
MaxDecks == 2
\* The most valid cards a deck file holds.
MaxCards == 3
\* The longest run of one key the history remembers.
MaxRun == 5
\* The most lines of a file loaded on its own.
MaxLines == 4
\* The most characters of a line parsed on its own.
MaxLineLen == 5
\* The most characters of a text wrapped on its own, and the largest width
\* and font size it is wrapped with.
MaxTextLen == 5
MaxWidth == 5
MaxFont == 4
\* The most children of a folder a catalog is built from on its own.
MaxEntries == 3
\* The most entries of a catalog whose two keys are pressed on their own.
MaxCatalog == 4

\* ------------------------------------------------------------- characters

\* The characters the model's texts use, in ascending byte order.
AsciiOrder ==
    <<" ", "\"", ",", ".", "1", "2", "3", "4", "5", "6", "7", "8", "9",
      "C", "S", "V", "_", "a", "b", "c", "d", "e", "f", "g", "h", "q",
      "s", "t", "v", "x">>

Ord(c) == CHOOSE i \in 1..Len(AsciiOrder) : AsciiOrder[i] = c

\* char::is_whitespace, on the characters above.
IsWhitespace(c) == c = " "

\* str::trim
RECURSIVE TrimStart(_)
TrimStart(s) ==
    IF s # <<>> /\ IsWhitespace(Head(s)) THEN TrimStart(Tail(s)) ELSE s

RECURSIVE TrimEnd(_)
TrimEnd(s) ==
    IF s # <<>> /\ IsWhitespace(s[Len(s)])
    THEN TrimEnd(SubSeq(s, 1, Len(s) - 1))
    ELSE s

Trim(s) == TrimEnd(TrimStart(s))

\* The derived Ord of String: byte-wise lexicographic, a proper prefix first.
RECURSIVE StrLess(_, _)
StrLess(a, b) ==
    IF a = <<>> THEN b # <<>>
    ELSE IF b = <<>> THEN FALSE
    ELSE IF Head(a) = Head(b) THEN StrLess(Tail(a), Tail(b))
    ELSE Ord(Head(a)) < Ord(Head(b))

\* ----------------------------------------------------------------- parser

\* The state of the loop of parse_csv_line: the next character to read, the
\* fields closed so far, the field being read and the quote flag.
ParseState(i, fields, current_field, in_quotes) ==
    [i |-> i, fields |-> fields, current_field |-> current_field,
     in_quotes |-> in_quotes]

\* One turn of the loop, with a comma splitting fields inside quotes too.
ParseStep_SplitsInsideQuotes(line, st) ==
    LET c == line[st.i] IN
    IF c = "\""
    THEN IF st.in_quotes /\ st.i < Len(line) /\ line[st.i + 1] = "\""
         THEN ParseState(st.i + 2, st.fields,
                         Append(st.current_field, "\""), st.in_quotes)
         ELSE ParseState(st.i + 1, st.fields, st.current_field,
                         ~st.in_quotes)
    ELSE IF c = ","
    THEN ParseState(st.i + 1, Append(st.fields, Trim(st.current_field)),
                    <<>>, st.in_quotes)
    ELSE ParseState(st.i + 1, st.fields, Append(st.current_field, c),
                    st.in_quotes)

\* One turn of the loop: the character at st.i, and the one after it when
\* the two are an escaped quote.
ParseStep(line, st) ==
    LET c == line[st.i] IN
    IF c = "\""
    THEN IF st.in_quotes /\ st.i < Len(line) /\ line[st.i + 1] = "\""
         THEN ParseState(st.i + 2, st.fields,
                         Append(st.current_field, "\""), st.in_quotes)
         ELSE ParseState(st.i + 1, st.fields, st.current_field,
                         ~st.in_quotes)
    ELSE IF c = "," /\ ~st.in_quotes
    THEN ParseState(st.i + 1, Append(st.fields, Trim(st.current_field)),
                    <<>>, st.in_quotes)
    ELSE ParseState(st.i + 1, st.fields, Append(st.current_field, c),
                    st.in_quotes)

\* The loop of parse_csv_line from character i on, and the push of the last
\* field after it.
RECURSIVE ParseFrom(_, _, _, _, _)
ParseFrom(line, i, fields, current_field, in_quotes) ==
    IF i > Len(line)
    THEN Append(fields, Trim(current_field))
    ELSE
        LET st == ParseStep(line,
                            ParseState(i, fields, current_field, in_quotes))
        IN ParseFrom(line, st.i, st.fields, st.current_field, st.in_quotes)

\* Option<(String, String)>
NoRecord == [some |-> FALSE, question |-> <<>>, answer |-> <<>>]

\* The record made of the fields, asking for more than two of them.
FirstTwoFields_NeedsThree(fields) ==
    IF Len(fields) > 2
    THEN [some |-> TRUE, question |-> fields[1], answer |-> fields[2]]
    ELSE NoRecord

\* The end of parse_csv_line: the first two fields, if there are two.
FirstTwoFields(fields) ==
    IF Len(fields) >= 2
    THEN [some |-> TRUE, question |-> fields[1], answer |-> fields[2]]
    ELSE NoRecord

parse_csv_line(line) ==
    FirstTwoFields(ParseFrom(line, 1, <<>>, <<>>, FALSE))

\* ----------------------------------------------------------------- loader

\* A file of the folder: whether File::open succeeds, and its lines; a line
\* is [valid |-> whether it decodes as UTF-8, text |-> its characters].
Flashcard(q, a) == [question |-> q, answer |-> a]

\* Result<Vec<Flashcard>, io::Error>
OkCards(cards) == [tag |-> "Ok", cards |-> cards, kind |-> "none"]
IoErr(kind) == [tag |-> "Err", cards |-> <<>>, kind |-> kind]
\* The value of `load_result` before any load.
NotLoaded == [tag |-> "none", cards |-> <<>>, kind |-> "none"]

\* The loop of load_flashcards, made to stop reading at the first line that
\* yields no card.
RECURSIVE LoadFrom_StopsAtSkippedLine(_, _, _)
LoadFrom_StopsAtSkippedLine(lines, i, cards) ==
    IF i > Len(lines) THEN OkCards(cards)
    ELSE IF ~lines[i].valid THEN IoErr("InvalidData")
    ELSE
        LET rec == parse_csv_line(lines[i].text) IN
        IF rec.some /\ rec.question # <<>> /\ rec.answer # <<>>
        THEN LoadFrom_StopsAtSkippedLine(
                 lines, i + 1,
                 Append(cards, Flashcard(rec.question, rec.answer)))
        ELSE OkCards(cards)

\* The for loop of load_flashcards from line i on.
RECURSIVE LoadFrom(_, _, _)
LoadFrom(lines, i, cards) ==
    IF i > Len(lines) THEN OkCards(cards)
    ELSE IF ~lines[i].valid THEN IoErr("InvalidData")
    ELSE
        LET rec == parse_csv_line(lines[i].text) IN
        IF rec.some /\ rec.question # <<>> /\ rec.answer # <<>>
        THEN LoadFrom(lines, i + 1,
                      Append(cards, Flashcard(rec.question, rec.answer)))
        ELSE LoadFrom(lines, i + 1, cards)

load_flashcards(file) ==
    IF ~file.opens THEN IoErr("NotFound")
    ELSE LoadFrom(file.lines, 1, <<>>)

\* Option<Vec<Flashcard>>, with the diagnostic printed on the way.
SomeCards(cards) == [some |-> TRUE, cards |-> cards, printed |-> "none"]
NoCards(printed) == [some |-> FALSE, cards |-> <<>>, printed |-> printed]

\* try_load_cards with the emptiness guard of its first arm left out.
try_load_cards_NoEmptyCheck(file) ==
    LET r == load_flashcards(file) IN
    IF r.tag = "Ok" THEN SomeCards(r.cards) ELSE NoCards("io")

try_load_cards(file) ==
    LET r == load_flashcards(file) IN
    IF r.tag = "Ok" /\ r.cards # <<>> THEN SomeCards(r.cards)
    ELSE IF r.tag = "Ok" THEN NoCards("empty")
    ELSE NoCards("io")

\* ---------------------------------------------------------------- catalog

\* The folder main opens.
DeckFolder ==
    <<".", "/", "f", "l", "a", "s", "h", "c", "a", "r", "d", "_",
      "d", "e", "c", "k", "s">>

\* Path::extension of a file name: what follows the last dot, and nothing for
\* a name with no dot or whose only dot leads it.
LastDot(name) ==
    IF \E i \in 1..Len(name) : name[i] = "."
    THEN CHOOSE i \in 1..Len(name) :
             /\ name[i] = "."
             /\ \A j \in (i + 1)..Len(name) : name[j] # "."
    ELSE 0

Extension(name) ==
    IF LastDot(name) <= 1
    THEN [some |-> FALSE, ext |-> <<>>]
    ELSE [some |-> TRUE, ext |-> SubSeq(name, LastDot(name) + 1, Len(name))]

\* The loop over fs::read_dir, taking folders named like a deck too.
RECURSIVE CsvNames_TakesFolders(_)
CsvNames_TakesFolders(listing) ==
    IF listing = <<>> THEN <<>>
    ELSE
        LET entry == Head(listing)
            rest == CsvNames_TakesFolders(Tail(listing))
        IN IF /\ Extension(entry.name).some
              /\ Extension(entry.name).ext = <<"c", "s", "v">>
              /\ entry.utf8
           THEN <<entry.name>> \o rest
           ELSE rest

\* The loop over fs::read_dir: the names of the regular files with the
\* extension csv whose name is valid UTF-8, in the order the listing yields
\* them.
RECURSIVE CsvNames(_)
CsvNames(listing) ==
    IF listing = <<>> THEN <<>>
    ELSE
        LET entry == Head(listing)
            rest == CsvNames(Tail(listing))
        IN IF /\ entry.is_file
              /\ Extension(entry.name).some
              /\ Extension(entry.name).ext = <<"c", "s", "v">>
              /\ entry.utf8
           THEN <<entry.name>> \o rest
           ELSE rest

\* Vec<String>::sort
RECURSIVE InsertSorted(_, _)
InsertSorted(x, sorted) ==
    IF sorted = <<>> THEN <<x>>
    ELSE IF StrLess(x, Head(sorted)) THEN <<x>> \o sorted
    ELSE <<Head(sorted)>> \o InsertSorted(x, Tail(sorted))

RECURSIVE Sort(_)
Sort(names) ==
    IF names = <<>> THEN <<>> ELSE InsertSorted(Head(names), Sort(Tail(names)))

DeckManager(deck_files, current_deck_index, deck_folder) ==
    [deck_files |-> deck_files,
     current_deck_index |-> current_deck_index,
     deck_folder |-> deck_folder]

\* The value of `decks` before DeckManager::new has returned one.
NoDeckManager == DeckManager(<<>>, 0, <<>>)

\* Result<DeckManager, io::Error>
OkManager(m) ==
    [tag |-> "Ok", kind |-> "none", message |-> "none", manager |-> m]
ErrManager(kind, message) ==
    [tag |-> "Err", kind |-> kind, message |-> message,
     manager |-> NoDeckManager]

\* DeckManager::new on the folder as found, `listing` being the order in
\* which read_dir yields the children.
DeckManager_new(folder, dir, listing) ==
    IF ~dir.exists THEN ErrManager("NotFound", "Folder does not exist")
    ELSE IF ~dir.is_dir THEN ErrManager("InvalidInput", "is not a directory")
    ELSE IF ~dir.listable
    THEN ErrManager("PermissionDenied", "os error from read_dir")
    ELSE
        LET deck_files == Sort(CsvNames(listing)) IN
        IF deck_files = <<>>
        THEN ErrManager("NotFound", "No CSV files found")
        ELSE OkManager(DeckManager(deck_files, 0, folder))

total_decks(d) == Len(d.deck_files)

get_current_deck_path(d) ==
    d.deck_folder \o <<"/">> \o d.deck_files[d.current_deck_index + 1]

\* next_deck with the modulo left out.
next_deck_NoWrap(d) ==
    IF d.deck_files # <<>>
    THEN [d EXCEPT !.current_deck_index = d.current_deck_index + 1]
    ELSE d

\* next_deck that moves two entries on.
next_deck_ByTwo(d) ==
    IF d.deck_files # <<>>
    THEN [d EXCEPT !.current_deck_index =
                       (d.current_deck_index + 2) % Len(d.deck_files)]
    ELSE d

next_deck(d) ==
    IF d.deck_files # <<>>
    THEN [d EXCEPT !.current_deck_index =
              (d.current_deck_index + 1) % Len(d.deck_files)]
    ELSE d

\* prev_deck that stays at the first deck instead of wrapping to the last.
prev_deck_Saturates(d) ==
    IF d.deck_files # <<>> /\ d.current_deck_index > 0
    THEN [d EXCEPT !.current_deck_index = d.current_deck_index - 1]
    ELSE d

prev_deck(d) ==
    IF d.deck_files # <<>>
    THEN IF d.current_deck_index = 0
         THEN [d EXCEPT !.current_deck_index = Len(d.deck_files) - 1]
         ELSE [d EXCEPT !.current_deck_index = d.current_deck_index - 1]
    ELSE d

\* File::open(path): the regular file of the folder at that path, and a file
\* that does not open when there is none.
NoFile == [opens |-> FALSE, lines |-> <<>>]

FileAt(dir, path) ==
    LET hits == {c \in dir.children :
                    c.is_file /\ DeckFolder \o <<"/">> \o c.name = path}
    IN IF dir.exists /\ dir.is_dir /\ hits # {}
       THEN (CHOOSE c \in hits : TRUE).file
       ELSE NoFile

\* ---------------------------------------------------------------- session

FlashcardGame_new(cards) ==
    [cards |-> cards, current_index |-> 0, is_flipped |-> FALSE]

\* The value of `game` before the first FlashcardGame::new.
NoGame == FlashcardGame_new(<<>>)

\* next_card that wraps to the first card after the last.
next_card_Wraps(g) ==
    IF Len(g.cards) = 0 \/ g.current_index < Len(g.cards) - 1
    THEN [g EXCEPT !.current_index = g.current_index + 1,
                   !.is_flipped = FALSE]
    ELSE [g EXCEPT !.current_index = 0, !.is_flipped = FALSE]

\* cards.len() - 1 on usize wraps below zero in a build without overflow
\* checks: the index is then below it, whatever it is.
next_card(g) ==
    IF Len(g.cards) = 0 \/ g.current_index < Len(g.cards) - 1
    THEN [g EXCEPT !.current_index = g.current_index + 1,
                   !.is_flipped = FALSE]
    ELSE g

\* prev_card that forgets to turn the card face up again.
prev_card_KeepsFlip(g) ==
    IF g.current_index > 0
    THEN [g EXCEPT !.current_index = g.current_index - 1]
    ELSE g

prev_card(g) ==
    IF g.current_index > 0
    THEN [g EXCEPT !.current_index = g.current_index - 1,
                   !.is_flipped = FALSE]
    ELSE g

\* flip that shows the answer instead of toggling.
flip_SetsTrue(g) == [g EXCEPT !.is_flipped = TRUE]

flip(g) == [g EXCEPT !.is_flipped = ~g.is_flipped]

\* update_decks that swaps the cards in place and keeps position and flip.
update_decks_KeepsPosition(d, g, dir) ==
    LET loaded == try_load_cards(FileAt(dir, get_current_deck_path(d))) IN
    IF loaded.some
    THEN [panicked |-> FALSE, game |-> [g EXCEPT !.cards = loaded.cards]]
    ELSE [panicked |-> TRUE, game |-> g]

\* update_decks that keeps the old session when the load fails.
update_decks_KeepsOldDeck(d, g, dir) ==
    LET loaded == try_load_cards(FileAt(dir, get_current_deck_path(d))) IN
    IF loaded.some
    THEN [panicked |-> FALSE, game |-> FlashcardGame_new(loaded.cards)]
    ELSE [panicked |-> FALSE, game |-> g]

\* update_decks: the session it leaves, and whether it panicked.
update_decks(d, g, dir) ==
    LET loaded == try_load_cards(FileAt(dir, get_current_deck_path(d))) IN
    IF loaded.some
    THEN [panicked |-> FALSE, game |-> FlashcardGame_new(loaded.cards)]
    ELSE [panicked |-> TRUE, game |-> g]

\* ---------------------------------------------------------------- display

\* A character that takes two bytes in UTF-8 (U+00E9).
Eacute == "~e"

\* char::len_utf8
ByteLen(c) == IF c = Eacute THEN 2 ELSE 1

\* str::len: the length in bytes.
RECURSIVE StrLen(_)
StrLen(s) == IF s = <<>> THEN 0 ELSE ByteLen(Head(s)) + StrLen(Tail(s))

\* str::split_whitespace from character i on, `word` being the word read.
RECURSIVE SplitFrom(_, _, _)
SplitFrom(text, i, word) ==
    IF i > Len(text) THEN (IF word = <<>> THEN <<>> ELSE <<word>>)
    ELSE IF IsWhitespace(text[i])
    THEN (IF word = <<>> THEN <<>> ELSE <<word>>) \o SplitFrom(text, i + 1, <<>>)
    ELSE SplitFrom(text, i + 1, Append(word, text[i]))

split_whitespace(text) == SplitFrom(text, 1, <<>>)

\* i32 division, which rounds toward zero.
DivI32(a, b) == IF a >= 0 THEN a \div b ELSE -((-a) \div b)

\* The for loop, losing a word too wide for a line of its own.
RECURSIVE WrapFrom_DropsWideWord(_, _, _, _, _, _)
WrapFrom_DropsWideWord(words, i, lines, current_line, approx_char_width, max_width) ==
    IF i > Len(words)
    THEN IF current_line # <<>> THEN Append(lines, current_line) ELSE lines
    ELSE
        LET word == words[i]
            test_line == IF current_line = <<>> THEN word
                         ELSE current_line \o <<" ">> \o word
        IN IF StrLen(test_line) * approx_char_width > max_width
           THEN IF current_line # <<>>
                THEN WrapFrom_DropsWideWord(words, i + 1,
                         Append(lines, current_line), word,
                         approx_char_width, max_width)
                ELSE WrapFrom_DropsWideWord(words, i + 1, lines,
                         current_line, approx_char_width, max_width)
           ELSE WrapFrom_DropsWideWord(words, i + 1, lines, test_line,
                                       approx_char_width, max_width)

\* The for loop, never starting a new line.
RECURSIVE WrapFrom_NeverBreaks(_, _, _, _, _, _)
WrapFrom_NeverBreaks(words, i, lines, current_line, approx_char_width, max_width) ==
    IF i > Len(words)
    THEN IF current_line # <<>> THEN Append(lines, current_line) ELSE lines
    ELSE
        LET word == words[i]
            test_line == IF current_line = <<>> THEN word
                         ELSE current_line \o <<" ">> \o word
        IN WrapFrom_NeverBreaks(words, i + 1, lines, test_line,
                                approx_char_width, max_width)

\* The for loop of wrap_text from word i on.
RECURSIVE WrapFrom(_, _, _, _, _, _)
WrapFrom(words, i, lines, current_line, approx_char_width, max_width) ==
    IF i > Len(words)
    THEN IF current_line # <<>> THEN Append(lines, current_line) ELSE lines
    ELSE
        LET word == words[i]
            test_line == IF current_line = <<>> THEN word
                         ELSE current_line \o <<" ">> \o word
        IN IF StrLen(test_line) * approx_char_width > max_width
           THEN IF current_line # <<>>
                THEN WrapFrom(words, i + 1, Append(lines, current_line),
                              word, approx_char_width, max_width)
                ELSE WrapFrom(words, i + 1, Append(lines, word),
                              current_line, approx_char_width, max_width)
           ELSE WrapFrom(words, i + 1, lines, test_line,
                         approx_char_width, max_width)

wrap_text(text, max_width, font_size) ==
    WrapFrom(split_whitespace(text), 1, <<>>, <<>>,
             DivI32(font_size, 2), max_width)

\* get_current_text that gives the question whatever is_flipped says.
get_current_text_QuestionOnly(g) ==
    IF g.current_index + 1 \in DOMAIN g.cards
    THEN g.cards[g.current_index + 1].question
    ELSE <<>>

get_current_text(g) ==
    IF g.current_index + 1 \in DOMAIN g.cards
    THEN IF g.is_flipped
         THEN g.cards[g.current_index + 1].answer
         ELSE g.cards[g.current_index + 1].question
    ELSE <<>>

\* str::strip_suffix(".csv"), and the name itself without that suffix.
get_current_deck_name(d) ==
    LET filename == d.deck_files[d.current_deck_index + 1]
        n == Len(filename)
    IN IF n >= 4 /\ SubSeq(filename, n - 3, n) = <<".", "c", "s", "v">>
       THEN SubSeq(filename, 1, n - 4)
       ELSE filename

\* The width of the card's text area and the font size main draws it with.
TextAreaWidth == 550
FontSize == 40

\* The drawing half of a frame: the deck title, the card face, the wrapped
\* text of the card, the status line and the card counter.
Draw(g, d) ==
    [deck_title |-> get_current_deck_name(d),
     face |-> IF g.is_flipped THEN "ANSWER" ELSE "QUESTION",
     text |-> get_current_text(g),
     lines |-> wrap_text(get_current_text(g), TextAreaWidth, FontSize),
     counter |-> <<g.current_index + 1, Len(g.cards)>>]

\* The value of `screen` before the first frame.
NoScreen ==
    [deck_title |-> <<>>, face |-> "none", text |-> <<>>, lines |-> <<>>,
     counter |-> <<0, 0>>]

\* ------------------------------------------------------- the file system

Digit == <<"1", "2", "3", "4", "5", "6", "7", "8", "9">>
Letter == <<"a", "b", "d", "e", "f", "g", "h">>

TextLine(text) == [valid |-> TRUE, text |-> text]
\* A line that is not UTF-8: BufRead::lines yields an error for it.
BadLine == [valid |-> FALSE, text |-> <<>>]

\* The line of card i: "q<i>, a<i>".
CardLine(i) == TextLine(<<"q", Digit[i], ",", " ", "a", Digit[i]>>)

\* A readable file with n valid records among lines that yield none: a blank
\* line and a line of one field before them, a line with no answer after.
CardFile(n) ==
    [opens |-> TRUE,
     lines |-> <<TextLine(<<>>), TextLine(<<"b", "a", "d">>)>>
               \o [i \in 1..n |-> CardLine(i)]
               \o <<TextLine(<<"q", ",">>)>>]

\* A file that opens and has an undecodable line after its first record.
BadUtf8File == [opens |-> TRUE, lines |-> <<CardLine(1), BadLine>>]

FilePool == {NoFile, BadUtf8File} \cup {CardFile(n) : n \in 0..MaxCards}

CsvName(i) == <<Letter[i], ".", "c", "s", "v">>

\* Children that are not decks: a text file and a folder named like a deck.
OtherChildren ==
    {[name |-> <<"c", ".", "t", "x", "t">>, is_file |-> TRUE, utf8 |-> TRUE,
      file |-> CardFile(1)],
     [name |-> <<"x", ".", "c", "s", "v">>, is_file |-> FALSE, utf8 |-> TRUE,
      file |-> NoFile]}

Folder(exists, is_dir, listable, children) ==
    [exists |-> exists, is_dir |-> is_dir, listable |-> listable,
     children |-> children]

FolderPool ==
    {Folder(FALSE, FALSE, FALSE, {}), Folder(TRUE, FALSE, FALSE, {}),
     Folder(TRUE, TRUE, FALSE, {}), Folder(TRUE, TRUE, TRUE, {})}
    \cup
    {Folder(TRUE, TRUE, TRUE,
            OtherChildren \cup
            {[name |-> CsvName(i), is_file |-> TRUE, utf8 |-> TRUE,
              file |-> content[i]] :
                 i \in present})
       : present \in SUBSET (1..MaxDecks), content \in [1..MaxDecks -> FilePool]}

\* Every order in which read_dir may yield the children.
Listings(children) ==
    {l \in [1..Cardinality(children) -> children] :
        \A i, j \in 1..Cardinality(children) : i # j => l[i] # l[j]}

\* ---------------------------------------------------------------- history

Snapshot == [game |-> game, deck_index |-> decks.current_deck_index]

\* The handler of `key` has run once more.
Handled(key) ==
    IF last_key = key /\ run_len < MaxRun
    THEN /\ last_key' = key
         /\ run_len' = run_len + 1
         /\ run_start' = run_start
    ELSE /\ last_key' = key
         /\ run_len' = 1
         /\ run_start' = Snapshot

\* ------------------------------------------------------------------ main

\* The values of `call` and `ret` while the program itself runs.
NoCall == [fn |-> "none"]
NoReturn == [done |-> FALSE]


Init ==
    /\ fs \in FolderPool
    /\ decks = NoDeckManager
    /\ game = NoGame
    /\ pc = "start"
    /\ panic_msg = "none"
    /\ stderr = "none"
    /\ load_result = NotLoaded
    /\ last_key = "none"
    /\ run_len = 0
    /\ run_start = [game |-> NoGame, deck_index |-> 0]
    /\ screen = NoScreen
    /\ call = NoCall
    /\ ret = NoReturn

\* The messages of the panics of main and update_decks.
UnwrapPanic == "called Result::unwrap() on an Err value"
FirstLoadPanic == "Could not load cards from folder"
ReloadPanic == "Failed to load cards"

\* main up to the event loop: the catalog, the first load, the session.
Startup ==
    /\ pc = "start"
    /\ \E listing \in Listings(fs.children) :
         LET made == DeckManager_new(DeckFolder, fs, listing) IN
         IF made.tag = "Err"
         THEN /\ pc' = "panicked"
              /\ panic_msg' = UnwrapPanic
              /\ UNCHANGED <<decks, game, stderr, load_result>>
         ELSE
             LET file == FileAt(fs, get_current_deck_path(made.manager))
                 maybe_cards == try_load_cards(file)
             IN /\ decks' = made.manager
                /\ load_result' = load_flashcards(file)
                /\ stderr' = maybe_cards.printed
                /\ IF ~maybe_cards.some
                   THEN /\ pc' = "panicked"
                        /\ panic_msg' = FirstLoadPanic
                        /\ game' = game
                   ELSE /\ pc' = "running"
                        /\ panic_msg' = panic_msg
                        /\ game' = FlashcardGame_new(maybe_cards.cards)
    /\ UNCHANGED <<fs, last_key, run_len, run_start, screen, call, ret>>

\* Each key handler below is a frame in which that key is pressed: the
\* handler, then the drawing.

\* KEY_SPACE or KEY_UP
KeySpace ==
    /\ pc = "running"
    /\ game' = flip(game)
    /\ screen' = Draw(flip(game), decks)
    /\ Handled("flip")
    /\ UNCHANGED <<fs, decks, pc, panic_msg, stderr, load_result, call, ret>>

\* KEY_RIGHT; on an empty collection cards.len() - 1 panics in a build with
\* overflow checks and wraps in one without.
KeyRight ==
    /\ pc = "running"
    /\ \E overflow_checks \in BOOLEAN :
         IF Len(game.cards) = 0 /\ overflow_checks
         THEN /\ pc' = "panicked"
              /\ panic_msg' = "attempt to subtract with overflow"
              /\ game' = game
              /\ screen' = screen
         ELSE /\ game' = next_card(game)
              /\ screen' = Draw(next_card(game), decks)
              /\ UNCHANGED <<pc, panic_msg>>
    /\ Handled("next")
    /\ UNCHANGED <<fs, decks, stderr, load_result, call, ret>>

\* KEY_LEFT
KeyLeft ==
    /\ pc = "running"
    /\ game' = prev_card(game)
    /\ screen' = Draw(prev_card(game), decks)
    /\ Handled("prev")
    /\ UNCHANGED <<fs, decks, pc, panic_msg, stderr, load_result, call, ret>>

\* The body shared by the two deck keys: update_decks on the catalog `d`
\* that prev_deck or next_deck has just left.  Indexing deck_files out of
\* range in get_current_deck_path panics.
SwitchTo(d) ==
    IF d.current_deck_index >= Len(d.deck_files)
    THEN /\ decks' = d
         /\ pc' = "panicked"
         /\ panic_msg' = "index out of bounds"
         /\ UNCHANGED <<game, stderr, load_result, screen>>
    ELSE
        LET file == FileAt(fs, get_current_deck_path(d))
            updated == update_decks(d, game, fs)
        IN /\ decks' = d
           /\ load_result' = load_flashcards(file)
           /\ stderr' = try_load_cards(file).printed
           /\ game' = updated.game
           /\ IF updated.panicked
              THEN /\ pc' = "panicked"
                   /\ panic_msg' = ReloadPanic
                   /\ screen' = screen
              ELSE /\ screen' = Draw(updated.game, d)
                   /\ UNCHANGED <<pc, panic_msg>>

\* KEY_A
KeyA ==
    /\ pc = "running"
    /\ SwitchTo(prev_deck(decks))
    /\ Handled("prev_deck")
    /\ UNCHANGED <<fs, call, ret>>

\* KEY_D
KeyD ==
    /\ pc = "running"
    /\ SwitchTo(next_deck(decks))
    /\ Handled("next_deck")
    /\ UNCHANGED <<fs, call, ret>>

\* A frame in which no key is pressed: the drawing only.
Frame ==
    /\ pc = "running"
    /\ screen' = Draw(game, decks)
    /\ UNCHANGED <<fs, decks, game, pc, panic_msg, stderr, load_result,
                   last_key, run_len, run_start, call, ret>>

\* window_should_close() ends the loop.
WindowClose ==
    /\ pc = "running"
    /\ pc' = "closed"
    /\ UNCHANGED <<fs, decks, game, panic_msg, stderr, load_result,
                   last_key, run_len, run_start, screen, call, ret>>

Next ==
    \/ Startup
    \/ KeySpace
    \/ KeyRight
    \/ KeyLeft
    \/ KeyA
    \/ KeyD
    \/ Frame
    \/ WindowClose

Spec == Init /\ [][Next]_vars

\* ----------------------------------------------------------------- claims

\* DeckManager::new has returned a catalog.
CatalogBuilt == pc # "start" /\ panic_msg # UnwrapPanic

\* The first load has succeeded and the session exists.
SessionBuilt == CatalogBuilt /\ panic_msg # FirstLoadPanic

\* The step is a deck switch (KEY_A or KEY_D).
DeckSwitch == KeyA \/ KeyD

Min(a, b) == IF a < b THEN a ELSE b
Max(a, b) == IF a > b THEN a ELSE b

\* C1: a deck switch whose load yields zero valid cards leaves the session
\* as it was (cards, position, flip) and reports the failure as a value:
\* the loop goes on, with the no-usable-cards diagnostic.
C1_EmptyReloadKeepsSessionAndReports ==
    [][(DeckSwitch /\ load_result'.tag = "Ok" /\ load_result'.cards = <<>>)
        => (game' = game /\ pc' = "running" /\ stderr' = "empty")]_vars

\* C2: a deck switch whose load fails, by I/O error or for want of usable
\* cards, does not end the process: the switch is refused (the catalog stays
\* on the deck it was on), the session stays, and the loop keeps running.
C2_FailedSwitchRefusedNoCrash ==
    [][(DeckSwitch /\ (load_result'.tag = "Err" \/ load_result'.cards = <<>>))
        => (pc' = "running" /\ game' = game /\ decks' = decks
            /\ stderr' # "none")]_vars

\* C3: once the first load has succeeded, the session always holds at least
\* one card and 0 <= position <= len - 1, and next_card's len - 1 never
\* underflows.
C3_SessionPointsAtCard ==
    SessionBuilt =>
        /\ Len(game.cards) >= 1
        /\ game.current_index \in 0..(Len(game.cards) - 1)
        /\ panic_msg # "attempt to subtract with overflow"

C3_Witness ==
    /\ pc = "running"
    /\ decks.current_deck_index > 0
    /\ last_key = "next"
    /\ Len(game.cards) = MaxCards
    /\ game.current_index = Len(game.cards) - 1

\* C4: card navigation saturates and never wraps.  After k NextCard calls
\* in a row from position p the position is min(p + k, len - 1), after k
\* PreviousCard calls max(p - k, 0); a run that began at the boundary has
\* left the whole session as it was; and no such call ends the process.
C4_NavigationSaturates ==
    /\ last_key = "next" =>
          /\ pc # "panicked"
          /\ game.cards = run_start.game.cards
          /\ game.current_index =
                Min(run_start.game.current_index + run_len,
                    Len(game.cards) - 1)
          /\ run_start.game.current_index = Len(game.cards) - 1
                => game = run_start.game
    /\ last_key = "prev" =>
          /\ pc # "panicked"
          /\ game.cards = run_start.game.cards
          /\ game.current_index =
                Max(run_start.game.current_index - run_len, 0)
          /\ run_start.game.current_index = 0 => game = run_start.game

\* Three cards, five NextCard calls from position 0: position 2.
C4_Witness ==
    /\ last_key = "next"
    /\ run_len = 5
    /\ run_start.game.current_index = 0
    /\ Len(game.cards) = 3
    /\ game.current_index = 2

\* C5, as stated: after every NextCard and every PreviousCard call
\* is_flipped is false, a call at the boundary included.
C5_NavigationAlwaysResetsFlip ==
    [][(KeyRight \/ KeyLeft) => ~game'.is_flipped]_vars

\* C5, amended: a NextCard or PreviousCard call that moves the position
\* leaves is_flipped false; a call at the boundary leaves is_flipped, like
\* the rest of the session, as it was.
C5_MovingNavigationResetsFlip ==
    [][(KeyRight \/ KeyLeft) =>
          IF game'.current_index # game.current_index
          THEN ~game'.is_flipped
          ELSE game' = game]_vars

\* A PreviousCard call that moved from a card showing its answer.
C5_Witness ==
    /\ last_key = "prev"
    /\ run_len = 1
    /\ run_start.game.is_flipped
    /\ game.current_index = run_start.game.current_index - 1
    /\ ~game.is_flipped

\* C6: Flip negates is_flipped and leaves the position and the cards alone:
\* after k Flip calls in a row the session is the one the run began with,
\* with is_flipped negated when k is odd, so two calls restore it.
C6_FlipTogglesOnly ==
    last_key = "flip" =>
        /\ game.cards = run_start.game.cards
        /\ game.current_index = run_start.game.current_index
        /\ game.is_flipped =
              IF run_len % 2 = 1
              THEN ~run_start.game.is_flipped
              ELSE run_start.game.is_flipped

C6_Witness ==
    /\ last_key = "flip"
    /\ run_len = 2
    /\ game.current_index > 0
    /\ run_start.game.is_flipped
    /\ game = run_start.game

\* C7: every successful reload, the first load or a deck switch, leaves a
\* session that holds exactly the cards just loaded, at position 0, not
\* flipped, whatever the position and flip were before.
C7_ReloadResetsSession ==
    (pc = "running" /\ last_key \in {"none", "prev_deck", "next_deck"}) =>
        /\ load_result.tag = "Ok"
        /\ game.cards = load_result.cards
        /\ game.current_index = 0
        /\ ~game.is_flipped

C7_Witness ==
    /\ pc = "running"
    /\ last_key = "next_deck"
    /\ run_len = 1
    /\ run_start.game.current_index > 0
    /\ run_start.game.is_flipped
    /\ game.cards # run_start.game.cards
    /\ game.current_index = 0
    /\ ~game.is_flipped

\* C8: a catalog that was constructed has at least one entry and its
\* active index stays within 0..entries-1 under any NextDeck and
\* PreviousDeck calls, so indexing the entries never goes out of range.
C8_CatalogIndexInRange ==
    CatalogBuilt =>
        /\ Len(decks.deck_files) >= 1
        /\ decks.current_deck_index \in 0..(Len(decks.deck_files) - 1)
        /\ panic_msg # "index out of bounds"

C8_Witness ==
    /\ pc = "running"
    /\ Len(decks.deck_files) = MaxDecks
    /\ last_key = "next_deck"
    /\ run_len > Len(decks.deck_files)
    /\ decks.current_deck_index = Len(decks.deck_files) - 1

\* C9: deck navigation is cyclic.  After k NextDeck calls in a row from
\* index i the index is (i + k) mod count, after k PreviousDeck calls
\* (i - k) mod count; with one entry it never changes.
C9_DeckNavigationCyclic ==
    /\ last_key = "next_deck" =>
          decks.current_deck_index =
              (run_start.deck_index + run_len) % Len(decks.deck_files)
    /\ last_key = "prev_deck" =>
          decks.current_deck_index =
              (run_start.deck_index - run_len) % Len(decks.deck_files)
    /\ (last_key \in {"next_deck", "prev_deck"}
        /\ Len(decks.deck_files) = 1) =>
          decks.current_deck_index = run_start.deck_index

\* PreviousDeck at index 0 has wrapped to the last index.
C9_Witness ==
    /\ last_key = "prev_deck"
    /\ run_len = 1
    /\ Len(decks.deck_files) >= 2
    /\ run_start.deck_index = 0
    /\ decks.current_deck_index = Len(decks.deck_files) - 1

\* The Option try_load_cards returns, without what it printed.
Returned(o) == [some |-> o.some, cards |-> o.cards]

\* C10: loading a readable file with zero valid records is a failure of its
\* own kind: load_flashcards never returns Ok with no cards, and what the
\* caller gets for it differs from what it gets for an I/O failure.
C10_ZeroRecordsIsDistinctError ==
    load_result # NotLoaded =>
        /\ load_result.tag = "Ok" => load_result.cards # <<>>
        /\ stderr = "empty" =>
              Returned(try_load_cards(
                  FileAt(fs, get_current_deck_path(decks))))
              # Returned(try_load_cards(NoFile))

\* ------------------------------------------- functions called on their own

mainvars == <<fs, decks, game, pc, panic_msg, stderr, load_result,
              last_key, run_len, run_start, screen>>

\* The program has not started and does not start.
MainIdle ==
    /\ fs = Folder(FALSE, FALSE, FALSE, {})
    /\ decks = NoDeckManager
    /\ game = NoGame
    /\ pc = "start"
    /\ panic_msg = "none"
    /\ stderr = "none"
    /\ load_result = NotLoaded
    /\ last_key = "none"
    /\ run_len = 0
    /\ run_start = [game |-> NoGame, deck_index |-> 0]
    /\ screen = NoScreen

Done(value) == [done |-> TRUE, value |-> value]

\* The sequences over `S` of at most n elements.
SeqsUpTo(S, n) == UNION {[1..k -> S] : k \in 0..n}

\* The lines the files loaded on their own are made of.
LoadLines ==
    {TextLine(<<"q", "1", ",", "a", "1">>),
     TextLine(<<>>),
     TextLine(<<"q", "2", ",">>),
     TextLine(<<"b", "a", "d">>),
     TextLine(<<",", "a", "3">>),
     TextLine(<<" ", "q", "4", " ", ",", "\"", "a", ",", "4", "\"">>),
     BadLine}

InitLoad ==
    /\ MainIdle
    /\ call \in {[fn |-> "load_flashcards", file |-> NoFile]} \cup
                {[fn |-> "load_flashcards",
                  file |-> [opens |-> TRUE, lines |-> lines]] :
                     lines \in SeqsUpTo(LoadLines, MaxLines)}
    /\ ret = NoReturn

CallLoad ==
    /\ call.fn = "load_flashcards"
    /\ ~ret.done
    /\ ret' = Done(load_flashcards(call.file))
    /\ UNCHANGED <<mainvars, call>>

NextLoad == CallLoad

SpecLoad == InitLoad /\ [][NextLoad]_vars

\* A line whose parse yields a record with both fields non-empty.
YieldsCard(line) ==
    /\ parse_csv_line(line.text).some
    /\ parse_csv_line(line.text).question # <<>>
    /\ parse_csv_line(line.text).answer # <<>>

\* C11: for a file that opens and decodes, load_flashcards returns Ok with
\* exactly the cards of the lines that yield one, in file order; the other
\* lines are skipped without ending the load, and every card has a non-empty
\* question and a non-empty answer.
C11_LoaderKeepsExactlyValidRecords ==
    (ret.done /\ call.fn = "load_flashcards" /\ call.file.opens
     /\ \A i \in 1..Len(call.file.lines) : call.file.lines[i].valid) =>
        LET kept == SelectSeq(call.file.lines, YieldsCard) IN
        /\ ret.value.tag = "Ok"
        /\ Len(ret.value.cards) = Len(kept)
        /\ \A i \in 1..Len(kept) :
              /\ ret.value.cards[i].question
                    = parse_csv_line(kept[i].text).question
              /\ ret.value.cards[i].answer
                    = parse_csv_line(kept[i].text).answer
              /\ ret.value.cards[i].question # <<>>
              /\ ret.value.cards[i].answer # <<>>

\* The file "q1,a1", "", "q2,", "bad" has yielded the one card q1 / a1.
C11_Witness ==
    /\ ret.done
    /\ call.fn = "load_flashcards"
    /\ call.file.lines =
          <<TextLine(<<"q", "1", ",", "a", "1">>), TextLine(<<>>),
            TextLine(<<"q", "2", ",">>), TextLine(<<"b", "a", "d">>)>>
    /\ ret.value = OkCards(<<Flashcard(<<"q", "1">>, <<"a", "1">>)>>)

\* The two quoted lines of the record format's description:
\* "a,b",c and "say ""hi""",ok
QuotedCommaLine == <<"\"", "a", ",", "b", "\"", ",", "c">>
EscapedQuoteLine ==
    <<"\"", "s", "a", "y", " ", "\"", "\"", "h", "i", "\"", "\"", "\"",
      ",", "o", "k">>

\* The lines parsed on their own: every short line over a letter, the comma,
\* the quote and the space, and the two lines above.
ParseLines ==
    SeqsUpTo({"a", ",", "\"", " "}, MaxLineLen)
    \cup {QuotedCommaLine, EscapedQuoteLine}

Parsing(st) == [done |-> FALSE, st |-> st, value |-> NoRecord]

InitParse ==
    /\ MainIdle
    /\ call \in {[fn |-> "parse_csv_line", line |-> line] :
                    line \in ParseLines}
    /\ ret = Parsing(ParseState(1, <<>>, <<>>, FALSE))

\* One turn of the while loop.
ParseChar ==
    /\ call.fn = "parse_csv_line"
    /\ ~ret.done
    /\ ret.st.i <= Len(call.line)
    /\ ret' = Parsing(ParseStep(call.line, ret.st))
    /\ UNCHANGED <<mainvars, call>>

\* The end of the line: the last field is pushed and the function returns.
ParseReturn ==
    /\ call.fn = "parse_csv_line"
    /\ ~ret.done
    /\ ret.st.i > Len(call.line)
    /\ LET fields == Append(ret.st.fields, Trim(ret.st.current_field)) IN
       ret' = [done |-> TRUE,
               st |-> [ret.st EXCEPT !.fields = fields],
               value |-> FirstTwoFields(fields)]
    /\ UNCHANGED <<mainvars, call>>

NextParse ==
    \/ ParseChar
    \/ ParseReturn

SpecParse == InitParse /\ [][NextParse]_vars

\* The call runs on until it returns: nothing else is scheduled.
SpecParseLive == SpecParse /\ WF_vars(NextParse)

\* The character a turn of the loop reads, and whether it and the next one
\* are a pair of quotes.
CharRead == call.line[ret.st.i]
QuotePairRead ==
    /\ CharRead = "\""
    /\ ret.st.i < Len(call.line)
    /\ call.line[ret.st.i + 1] = "\""

\* C12: a field is closed only at a comma read while in_quotes is false; a
\* comma read inside quotes is added to the field; a pair of quotes read
\* inside quotes adds one quote to the field and leaves in_quotes true; any
\* other quote toggles in_quotes and adds nothing.  So "a,b",c gives
\* (a,b ; c) and "say ""hi""",ok gives (say "hi" ; ok).
C12_ParserQuoting ==
    [][/\ ParseChar =>
            /\ Len(ret'.st.fields) # Len(ret.st.fields)
                  <=> (CharRead = "," /\ ~ret.st.in_quotes)
            /\ (CharRead = "," /\ ret.st.in_quotes) =>
                  /\ ret'.st.current_field
                        = Append(ret.st.current_field, ",")
                  /\ ret'.st.in_quotes
            /\ (QuotePairRead /\ ret.st.in_quotes) =>
                  /\ ret'.st.current_field
                        = Append(ret.st.current_field, "\"")
                  /\ ret'.st.in_quotes
                  /\ ret'.st.i = ret.st.i + 2
            /\ (CharRead = "\"" /\ ~(QuotePairRead /\ ret.st.in_quotes)) =>
                  /\ ret'.st.in_quotes = ~ret.st.in_quotes
                  /\ ret'.st.current_field = ret.st.current_field
                  /\ ret'.st.i = ret.st.i + 1
       /\ ParseReturn =>
            /\ call.line = QuotedCommaLine =>
                  ret'.value = [some |-> TRUE, question |-> <<"a", ",", "b">>,
                                answer |-> <<"c">>]
            /\ call.line = EscapedQuoteLine =>
                  ret'.value =
                      [some |-> TRUE,
                       question |-> <<"s", "a", "y", " ", "\"", "h", "i", "\"">>,
                       answer |-> <<"o", "k">>]
      ]_vars

\* "say ""hi""",ok has been parsed to (say "hi" ; ok).
C12_Witness ==
    /\ ret.done
    /\ call.fn = "parse_csv_line"
    /\ call.line = EscapedQuoteLine
    /\ ret.value.question = <<"s", "a", "y", " ", "\"", "h", "i", "\"">>
    /\ ret.value.answer = <<"o", "k">>

\* The commas of a line outside quotes: those with an even number of quote
\* characters before them.
QuotesBefore(line, i) == Cardinality({j \in 1..(i - 1) : line[j] = "\""})
OuterCommas(line) ==
    {i \in 1..Len(line) : line[i] = "," /\ QuotesBefore(line, i) % 2 = 0}

Trimmed(field) ==
    field = <<>> \/ (~IsWhitespace(field[1]) /\ ~IsWhitespace(field[Len(field)]))

\* C13: the parser returns in the end, whatever the line.  It closes
\* one field more than the line has commas outside quotes, returns no record
\* exactly when that is fewer than two (the empty line included), and
\* otherwise the first two fields, trimmed, whatever follows them; a quote
\* left open at the end of the line changes none of this.  What the loop
\* returns step by step is what parse_csv_line gives for the line.
C13_ParserTotal ==
    /\ <>ret.done
    /\ [](ret.done =>
              /\ ret.value = parse_csv_line(call.line)
              /\ Len(ret.st.fields) = Cardinality(OuterCommas(call.line)) + 1
              /\ ret.value.some <=> OuterCommas(call.line) # {}
              /\ ~ret.value.some => ret.value = NoRecord
              /\ ret.value.some =>
                    /\ ret.value.question = ret.st.fields[1]
                    /\ ret.value.answer = ret.st.fields[2]
                    /\ Trimmed(ret.value.question)
                    /\ Trimmed(ret.value.answer))

\* a,a," has been parsed: three fields, a quote left open, the record (a ; a).
C13_Witness ==
    /\ ret.done
    /\ call.fn = "parse_csv_line"
    /\ call.line = <<"a", ",", "a", ",", "\"">>
    /\ ret.st.in_quotes
    /\ Len(ret.st.fields) = 3
    /\ ret.value = [some |-> TRUE, question |-> <<"a">>, answer |-> <<"a">>]

\* The texts wrapped on their own: a one-byte letter, a two-byte letter and
\* the space.
WrapTexts == SeqsUpTo({"a", Eacute, " "}, MaxTextLen)

InitWrap ==
    /\ MainIdle
    /\ call \in {[fn |-> "wrap_text", text |-> text, max_width |-> max_width,
                  font_size |-> font_size] :
                    text \in WrapTexts, max_width \in 0..MaxWidth,
                    font_size \in 0..MaxFont}
    /\ ret = NoReturn

CallWrap ==
    /\ call.fn = "wrap_text"
    /\ ~ret.done
    /\ ret' = Done(wrap_text(call.text, call.max_width, call.font_size))
    /\ UNCHANGED <<mainvars, call>>

NextWrap == CallWrap

SpecWrap == InitWrap /\ [][NextWrap]_vars

\* The words of the lines, in order.
RECURSIVE WordsOf(_)
WordsOf(lines) ==
    IF lines = <<>> THEN <<>>
    ELSE split_whitespace(Head(lines)) \o WordsOf(Tail(lines))

\* C14: the words of the lines wrap_text returns, read in order, are the
\* whitespace-separated words of the text: none dropped, moved, repeated or
\* cut in two.
C14_WrapKeepsWords ==
    (call.fn = "wrap_text" /\ ret.done) =>
        WordsOf(ret.value) = split_whitespace(call.text)

\* "a a a" wrapped to the two lines "a a" and "a".
C14_Witness ==
    /\ call.fn = "wrap_text"
    /\ ret.done
    /\ call.text = <<"a", " ", "a", " ", "a">>
    /\ ret.value = << <<"a", " ", "a">>, <<"a">> >>

\* The estimated width of a line: its number of characters times half the
\* font size.
EstimatedWidth(line) == Len(line) * DivI32(call.font_size, 2)

\* C15: every line wrap_text returns has an estimated width of at most
\* max_width, unless it is one word that alone is wider; a word wider than
\* max_width is a line of its own.
C15_WrapWithinWidth ==
    (call.fn = "wrap_text" /\ ret.done) =>
        \A k \in DOMAIN ret.value :
            LET line == ret.value[k]
                words == split_whitespace(line)
            IN /\ \/ EstimatedWidth(line) <= call.max_width
                  \/ line \in {word \in {words[j] : j \in DOMAIN words} :
                                  EstimatedWidth(word) > call.max_width}
               /\ \A j \in DOMAIN words :
                     EstimatedWidth(words[j]) > call.max_width
                         => line = words[j]

\* "aaa a" wrapped at width 2 with one unit per character: the word aaa is
\* too wide and is a line of its own.
C15_Witness ==
    /\ call.fn = "wrap_text"
    /\ ret.done
    /\ call.text = <<"a", "a", "a", " ", "a">>
    /\ call.max_width = 2
    /\ DivI32(call.font_size, 2) = 1
    /\ ret.value = << <<"a", "a", "a">>, <<"a">> >>

\* C18: for every two lines in a row that wrap_text returns, the first,
\* a space and the first word of the second are together estimated wider
\* than max_width: the break was needed.
C18_WrapGreedy ==
    (call.fn = "wrap_text" /\ ret.done) =>
        \A k \in DOMAIN ret.value :
            k + 1 \in DOMAIN ret.value =>
                EstimatedWidth(ret.value[k] \o <<" ">>
                               \o split_whitespace(ret.value[k + 1])[1])
                    > call.max_width

\* A child of a folder a catalog is built from on its own.
Child(name, is_file, utf8) ==
    [name |-> name, is_file |-> is_file, utf8 |-> utf8, file |-> NoFile]

\* Two decks, a text file, a folder named like a deck, a file named .csv
\* (a name with no extension), a file with the extension CSV and a deck whose
\* name is not valid UTF-8.
CatalogChildren ==
    {Child(CsvName(2), TRUE, TRUE),
     Child(CsvName(1), TRUE, TRUE),
     Child(<<"c", ".", "t", "x", "t">>, TRUE, TRUE),
     Child(<<"x", ".", "c", "s", "v">>, FALSE, TRUE),
     Child(<<".", "c", "s", "v">>, TRUE, TRUE),
     Child(<<"e", ".", "C", "S", "V">>, TRUE, TRUE),
     Child(<<"n", ".", "c", "s", "v">>, TRUE, FALSE)}

\* No folder, a file in its place, a folder that cannot be listed, and the
\* folders with up to MaxEntries of the children above.
CatalogFolders ==
    {Folder(FALSE, FALSE, FALSE, {}), Folder(TRUE, FALSE, FALSE, {}),
     Folder(TRUE, TRUE, FALSE, {})}
    \cup
    {Folder(TRUE, TRUE, TRUE, children) :
        children \in {c \in SUBSET CatalogChildren :
                         Cardinality(c) <= MaxEntries}}

InitCatalog ==
    /\ MainIdle
    /\ \E dir \in CatalogFolders :
         \E listing \in Listings(dir.children) :
            call = [fn |-> "DeckManager::new", folder |-> DeckFolder,
                    dir |-> dir, listing |-> listing]
    /\ ret = NoReturn

CallCatalog ==
    /\ call.fn = "DeckManager::new"
    /\ ~ret.done
    /\ ret' = Done(DeckManager_new(call.folder, call.dir, call.listing))
    /\ UNCHANGED <<mainvars, call>>

NextCatalog == CallCatalog

SpecCatalog == InitCatalog /\ [][NextCatalog]_vars

\* The names of the regular files of a folder that end in .csv after at
\* least one other character.
CsvFilesOf(dir) ==
    {c.name : c \in {c \in dir.children :
                        /\ c.is_file
                        /\ Len(c.name) >= 5
                        /\ SubSeq(c.name, Len(c.name) - 3, Len(c.name))
                               = <<".", "c", "s", "v">>}}

\* The same, of the children whose name is valid UTF-8.
Utf8CsvFilesOf(dir) ==
    {c.name : c \in {c \in dir.children : c.utf8 /\ c.name \in CsvFilesOf(dir)}}

\* Why building a catalog from the folder fails, by the three causes of the
\* specification, or "none".
Cause(dir) ==
    IF ~dir.exists THEN "DirectoryNotFound"
    ELSE IF ~dir.is_dir THEN "NotADirectory"
    ELSE IF CsvFilesOf(dir) = {} THEN "NoDecksFound"
    ELSE "none"

IsSortedStrictly(names) ==
    \A i \in 1..(Len(names) - 1) : StrLess(names[i], names[i + 1])

C17_CurrentText ==
    [][(pc = "running" /\ pc' = "running") =>
          LET card == game'.cards[game'.current_index + 1] IN
          /\ screen'.text = IF game'.is_flipped THEN card.answer
                            ELSE card.question
          /\ Frame => (game' = game /\ decks' = decks)
          /\ ((KeyRight \/ KeyLeft)
                 /\ game'.current_index # game.current_index)
                => screen'.text = card.question
          /\ DeckSwitch => screen'.text = game'.cards[1].question
          /\ (Frame /\ last_key = "none")
                => screen'.text = game'.cards[1].question
      ]_vars

\* The answer of card 1 was showing; NextCard moved to card 2 and the frame
\* shows its question.
C17_Witness ==
    /\ pc = "running"
    /\ last_key = "next"
    /\ run_len = 1
    /\ run_start.game.is_flipped
    /\ run_start.game.current_index = 0
    /\ game.current_index = 1
    /\ screen.text = game.cards[2].question
    /\ screen.text # game.cards[2].answer
    /\ screen.face = "QUESTION"

\* C19: while the event loop runs, the session holds the cards of the file
\* at the catalog's current deck path, and right after a deck key it is at
\* position 0 and not flipped: the catalog's index and the deck in the
\* session never disagree.
C19_SessionFollowsCatalog ==
    pc = "running" =>
        LET loaded == load_flashcards(FileAt(fs, get_current_deck_path(decks)))
        IN /\ loaded.tag = "Ok"
           /\ game.cards = loaded.cards
           /\ last_key \in {"prev_deck", "next_deck"} =>
                 (game.current_index = 0 /\ ~game.is_flipped)

\* KEY_A has moved the catalog to another deck with other cards, from a
\* session that was flipped at a later card.
C19_Witness ==
    /\ pc = "running"
    /\ last_key = "prev_deck"
    /\ run_len = 1
    /\ decks.current_deck_index # run_start.deck_index
    /\ run_start.game.current_index > 0
    /\ run_start.game.is_flipped
    /\ game.cards
          = load_flashcards(FileAt(fs, get_current_deck_path(decks))).cards
    /\ game.cards # run_start.game.cards

\* The catalogs of one to MaxCatalog entries, at every index.
Catalogs ==
    UNION {{DeckManager([i \in 1..n |-> CsvName(i)], k, DeckFolder) :
               k \in 0..(n - 1)} : n \in 1..MaxCatalog}

\* next_deck and prev_deck called on a catalog, `calls` being the calls made
\* so far.
InitDecks ==
    /\ MainIdle
    /\ call \in {[fn |-> "next_deck / prev_deck", start |-> d] :
                    d \in Catalogs}
    /\ ret = [done |-> FALSE, value |-> call.start, calls |-> <<>>]

CallNextDeck ==
    /\ call.fn = "next_deck / prev_deck"
    /\ Len(ret.calls) < MaxRun
    /\ ret' = [done |-> TRUE, value |-> next_deck(ret.value),
               calls |-> Append(ret.calls, "next_deck")]
    /\ UNCHANGED <<mainvars, call>>

CallPrevDeck ==
    /\ call.fn = "next_deck / prev_deck"
    /\ Len(ret.calls) < MaxRun
    /\ ret' = [done |-> TRUE, value |-> prev_deck(ret.value),
               calls |-> Append(ret.calls, "prev_deck")]
    /\ UNCHANGED <<mainvars, call>>

NextDecks ==
    \/ CallNextDeck
    \/ CallPrevDeck

SpecDecks == InitDecks /\ [][NextDecks]_vars

\* C20: on a catalog, prev_deck undoes next_deck and next_deck undoes
\* prev_deck; total_decks() calls of one of them in a row bring the index
\* back to where it started; no call changes the entries or the folder.
C20_DeckKeysInverse ==
    call.fn = "next_deck / prev_deck" =>
        LET d == ret.value IN
        /\ prev_deck(next_deck(d)) = d
        /\ next_deck(prev_deck(d)) = d
        /\ d.deck_files = call.start.deck_files
        /\ d.deck_folder = call.start.deck_folder
        /\ (/\ Len(ret.calls) = total_decks(d)
            /\ \E key \in {"next_deck", "prev_deck"} :
                  \A i \in DOMAIN ret.calls : ret.calls[i] = key)
              => d.current_deck_index = call.start.current_deck_index

\* Three next_deck calls on a catalog of three entries that started at its
\* second entry: the index is back there.
C20_Witness ==
    /\ call.fn = "next_deck / prev_deck"
    /\ total_decks(call.start) = 3
    /\ call.start.current_deck_index = 1
    /\ ret.calls = <<"next_deck", "next_deck", "next_deck">>
    /\ ret.value = call.start

====
